---- MODULE Spec2Model ----
(***************************************************************************)
(* A model of supernovas::julian_date (supernovas/julian_date.h): the      *)
(* calendar conversion detail::calculate_julian_date, the constructors,    *)
(* the increment / decrement members and the free comparison and           *)
(* arithmetic operators, each translated from its body in the header.      *)
(*                                                                         *)
(* Durations.  std::chrono::nanoseconds is a signed 64-bit count of        *)
(* nanoseconds.  TLC integers have 32 bits, so a duration is carried as    *)
(* the pair [sec, nsec] with 0 <= nsec < NsPerSec, standing for the count  *)
(* sec * NsPerSec + nsec (so -1ns is [sec |-> -1, nsec |-> 999999999]).    *)
(* The encoding is exact; only the range is bounded by the input sets.     *)
(*                                                                         *)
(* Floating point.  calculate_julian_date sums int, double and long double *)
(* terms.  A value of that sum is carried exactly as [whole, part]: the    *)
(* integer floor and a duration 0 <= part < one day, standing for          *)
(* whole + part / ns_per_day.  Every term except the time-of-day fraction  *)
(* is a multiple of 1/4 and is exact in binary floating point; the         *)
(* fraction is exact up to one unit in the last place, which can change    *)
(* the truncated result only for a time of day within a few nanoseconds    *)
(* below the point where the sum crosses an integer (12h for years >= 0,   *)
(* 18h for years < 0).  The input sets keep clear of those windows.        *)
(***************************************************************************)
EXTENDS Integers, Sequences, FiniteSets, TLC

VARIABLES jd, ret, op, before, arg_day, arg_dur, arg_ymd,
          base, incs, decs, cmp, halted

vars == <<jd, ret, op, before, arg_day, arg_dur, arg_ymd,
          base, incs, decs, cmp, halted>>

(***************************************************************************)
(* Program constants.                                                      *)
(***************************************************************************)
\* ns_per_day{86'400'000'000'000} == SecPerDay * NsPerSec nanoseconds.
SecPerDay == 86400
NsPerSec == 1000000000

\* day_type = int: a 32-bit two's complement integer.
INT_MAX == 2147483647
INT_MIN == (-INT_MAX) - 1

\* date::January, date::February, date::June, date::October.
January == 1
February == 2
June == 6
October == 10

(***************************************************************************)
(* Bounds of the model.                                                    *)
(***************************************************************************)
\* The most increments and decrements applied to one constructed date.
MaxIncDec == 3

(***************************************************************************)
(* std::chrono::duration values and their arithmetic.                      *)
(***************************************************************************)
Dur(s, n) == [sec |-> s, nsec |-> n]
seconds(s) == Dur(s, 0)
nanoseconds(n) == Dur(n \div NsPerSec, n % NsPerSec)
zero == Dur(0, 0)
ns_per_day == Dur(SecPerDay, 0)

DurAdd(x, y) ==
  Dur(x.sec + y.sec + ((x.nsec + y.nsec) \div NsPerSec),
      (x.nsec + y.nsec) % NsPerSec)

DurNeg(x) ==
  IF x.nsec = 0 THEN Dur(-x.sec, 0) ELSE Dur((-x.sec) - 1, NsPerSec - x.nsec)

DurSub(x, y) == DurAdd(x, DurNeg(y))

DurLess(x, y) == x.sec < y.sec \/ (x.sec = y.sec /\ x.nsec < y.nsec)

DurLeq(x, y) == x = y \/ DurLess(x, y)

(***************************************************************************)
(* Exact values of the floating-point sum: whole + part / ns_per_day.      *)
(***************************************************************************)
Real(w, p) == [whole |-> w, part |-> p]

FromInt(i) == Real(i, zero)

\* A duration as a (possibly improper, possibly negative) fraction of a day.
calculate_tod_fraction(ns) ==
  Real(ns.sec \div SecPerDay, Dur(ns.sec % SecPerDay, ns.nsec))

RealAdd(x, y) ==
  LET s == DurAdd(x.part, y.part)
  IN  Real(x.whole + y.whole + (s.sec \div SecPerDay),
           Dur(s.sec % SecPerDay, s.nsec))

\* static_cast<int>(long double): truncation toward zero.
static_cast_int(x) ==
  IF x.whole < 0 /\ x.part # zero THEN x.whole + 1 ELSE x.whole

\* operator/ on int: C++ integer division truncates toward zero.
IntDiv(a, b) == IF a >= 0 THEN a \div b ELSE -((-a) \div b)

(***************************************************************************)
(* date::year_month_day and detail::calculate_julian_date.                 *)
(***************************************************************************)
YMD(y, m, d) == [year |-> y, month |-> m, day |-> d]

\* A comparison that takes the day of the change itself as after it.
ymd_greater_or_equal(a, b) ==
  \/ a.year > b.year
  \/ a.year = b.year /\ a.month > b.month
  \/ a.year = b.year /\ a.month = b.month /\ a.day >= b.day

\* date::operator>(year_month_day, year_month_day): lexicographic.
ymd_greater(a, b) ==
  \/ a.year > b.year
  \/ a.year = b.year /\ a.month > b.month
  \/ a.year = b.year /\ a.month = b.month /\ a.day > b.day

gregorian_change == YMD(1582, October, 15)

effective_year(ymd) ==
  IF ymd.month = January \/ ymd.month = February
  THEN ymd.year - 1 ELSE ymd.year

effective_month(ymd) ==
  IF ymd.month = January \/ ymd.month = February
  THEN ymd.month + 12 ELSE ymd.month

\* A conversion without the Gregorian century correction.
term_B_julian_only(ymd) == 0

term_B(ymd) ==
  LET year == effective_year(ymd)
  IN  IF ymd_greater(ymd, gregorian_change)
      THEN 2 - IntDiv(year, 100) + IntDiv(IntDiv(year, 100), 4)
      ELSE 0

\* std::floor(365.25 * year), less 0.75 for a negative year.
term_C(ymd) ==
  LET year == effective_year(ymd)
      fl == (1461 * year) \div 4
  IN  IF year < 0
      THEN RealAdd(FromInt(fl), Real(-1, seconds(SecPerDay \div 4)))
      ELSE FromInt(fl)

\* std::floor(30.6001 * (month + 1)).
term_D(ymd) == (306001 * (effective_month(ymd) + 1)) \div 10000

\* The literal 1720994.5.
jd_offset == Real(1720994, seconds(SecPerDay \div 2))

calculate_julian_date(ymd, time_of_day) ==
  LET dom == RealAdd(FromInt(ymd.day), calculate_tod_fraction(time_of_day))
      sum == RealAdd(RealAdd(RealAdd(RealAdd(FromInt(term_B(ymd)),
                                             term_C(ymd)),
                                     FromInt(term_D(ymd))),
                             dom),
                     jd_offset)
  IN  static_cast_int(sum)

(***************************************************************************)
(* class julian_date: constructors.                                        *)
(***************************************************************************)
Date(d, t) == [m_day |-> d, m_time_of_day |-> t]

day(date) == date.m_day
time_of_day(date) == date.m_time_of_day

\* julian_date() = default, with the member initialisers {0} and {0}.
julian_date_default == Date(0, zero)

\* julian_date(day_type, duration): the body is empty and names neither
\* argument, so the members keep their default initialisers.
julian_date_day_time(d, time) == Date(0, zero)

\* julian_date(year_month_day, duration).
julian_date_calendar(calendar_date, tod) ==
  Date(calculate_julian_date(calendar_date, tod), tod)

(***************************************************************************)
(* Increment and decrement.  ++m_day at INT_MAX and --m_day at INT_MIN are *)
(* signed overflow, undefined behaviour: the build either wraps (plain     *)
(* two's complement add) or traps (-ftrapv, sanitizers).  Each outcome is  *)
(* [date, trap]; a trap leaves no date to observe, the operand is kept.    *)
(***************************************************************************)
Outcome(date, t) == [date |-> date, trap |-> t]

preincrement(date) ==
  IF date.m_day < INT_MAX
  THEN {Outcome(Date(date.m_day + 1, date.m_time_of_day), FALSE)}
  ELSE {Outcome(Date(INT_MIN, date.m_time_of_day), FALSE),
        Outcome(date, TRUE)}

predecrement(date) ==
  IF date.m_day > INT_MIN
  THEN {Outcome(Date(date.m_day - 1, date.m_time_of_day), FALSE)}
  ELSE {Outcome(Date(INT_MAX, date.m_time_of_day), FALSE),
        Outcome(date, TRUE)}

(***************************************************************************)
(* Free operators.                                                         *)
(***************************************************************************)
operator_eq(a, b) == TRUE
operator_ne(a, b) == ~operator_eq(a, b)
operator_lt(a, b) == TRUE
operator_le(a, b) == TRUE
operator_gt(a, b) == TRUE
operator_ge(a, b) == TRUE

\* An addition that adds to the time of day and leaves the day alone.
operator_plus_no_carry(date, duration) ==
  Date(date.m_day, DurAdd(date.m_time_of_day, duration))

operator_plus(date, duration) == date
operator_plus_commuted(duration, date) == operator_plus(date, duration)
operator_minus(date, duration) == date

(***************************************************************************)
(* Inputs.                                                                 *)
(***************************************************************************)
DayArgs == {-3, 0, 132, 245}

RawDurations ==
  {zero, nanoseconds(56), seconds(2), seconds(86398), ns_per_day,
   seconds(2 * SecPerDay), seconds(-2), nanoseconds(-1), seconds(-SecPerDay)}

CalendarDates == {YMD(2021, June, 3), YMD(1582, October, 15)}

TodArgs == {zero, nanoseconds(56), seconds(SecPerDay \div 2), ns_per_day,
            seconds(-2)}

AddDurations ==
  {zero, nanoseconds(56), seconds(2), ns_per_day, seconds(2 * SecPerDay),
   seconds(-2)}

\* The inputs of the conversion specification: years below and above zero,
\* both sides of the Gregorian change, every month rule, times of day
\* inside, below and above [0, one day).
ConvYears == {-4800, -4713, -4712, -1, 0, 1, 1581, 1582, 1583, 2021}
ConvMonths == {January, February, 3, June, 9, October, 11, 12}
ConvDays == {1, 3, 14, 15, 16, 28}
ConvTods ==
  {zero, nanoseconds(56), seconds(21600), seconds(43199), seconds(43200),
   seconds(64800), seconds(86399), ns_per_day, seconds(-2),
   seconds(3 * SecPerDay + 50000)}

\* Dates within MaxIncDec steps of the ends of day_type, each the result of
\* that many operator++ / operator-- calls on a constructed date.
LimitDates ==
  {Date(INT_MAX - k, t) : k \in 0..MaxIncDec, t \in {zero, nanoseconds(56)}}
    \cup
  {Date(INT_MIN + k, t) : k \in 0..MaxIncDec, t \in {zero, nanoseconds(56)}}

(***************************************************************************)
(* State.  jd is the julian_date object the members act on; ret is the     *)
(* value the last operator returned.  The other variables record the last  *)
(* call: its name, the object before it, its arguments, the six results of *)
(* the last comparison, and the construction the object descends from with *)
(* the number of increments and decrements since.                          *)
(***************************************************************************)
NoYMD == YMD(0, 0, 0)
NoCmp == [eq |-> FALSE, ne |-> FALSE, lt |-> FALSE, le |-> FALSE,
          gt |-> FALSE, ge |-> FALSE]

Init ==
  /\ jd = julian_date_default
  /\ ret = julian_date_default
  /\ op = "default"
  /\ before = julian_date_default
  /\ arg_day = 0
  /\ arg_dur = zero
  /\ arg_ymd = NoYMD
  /\ base = julian_date_default
  /\ incs = 0
  /\ decs = 0
  /\ cmp = NoCmp
  /\ halted = FALSE

InitLimits ==
  /\ jd \in LimitDates
  /\ ret = jd
  /\ op = "reached"
  /\ before = jd
  /\ arg_day = 0
  /\ arg_dur = zero
  /\ arg_ymd = NoYMD
  /\ base = jd
  /\ incs = 0
  /\ decs = 0
  /\ cmp = NoCmp
  /\ halted = FALSE

Constructed(date, name, d, t, ymd) ==
  /\ ~halted
  /\ jd' = date
  /\ op' = name
  /\ before' = date
  /\ arg_day' = d
  /\ arg_dur' = t
  /\ arg_ymd' = ymd
  /\ base' = date
  /\ incs' = 0
  /\ decs' = 0
  /\ cmp' = NoCmp
  /\ UNCHANGED <<ret, halted>>

DefaultConstruct ==
  Constructed(julian_date_default, "default", 0, zero, NoYMD)

ConstructDayTime(d, time) ==
  Constructed(julian_date_day_time(d, time), "day_time", d, time, NoYMD)

ConstructCalendar(calendar_date, tod) ==
  Constructed(julian_date_calendar(calendar_date, tod), "calendar", 0, tod,
              calendar_date)

\* A member that steps the day: o is the outcome of operator++ / operator--,
\* returned is what the member returns when it completes.
Stepped(name, o, returned, i, d) ==
  /\ ~halted
  /\ incs + decs < MaxIncDec
  /\ op' = name
  /\ before' = jd
  /\ arg_day' = 0
  /\ arg_dur' = zero
  /\ arg_ymd' = NoYMD
  /\ cmp' = NoCmp
  /\ UNCHANGED base
  /\ IF o.trap
     THEN /\ halted' = TRUE
          /\ UNCHANGED <<jd, ret, incs, decs>>
     ELSE /\ jd' = o.date
          /\ ret' = returned
          /\ incs' = incs + i
          /\ decs' = decs + d
          /\ UNCHANGED halted

PreIncrement == \E o \in preincrement(jd) : Stepped("++x", o, o.date, 1, 0)

\* A post-increment that returns the incremented object.
PostIncrement_returns_new ==
  \E o \in preincrement(jd) : Stepped("x++", o, o.date, 1, 0)

\* const auto original{*this}; operator++(); return original;
PostIncrement == \E o \in preincrement(jd) : Stepped("x++", o, jd, 1, 0)

PreDecrement == \E o \in predecrement(jd) : Stepped("--x", o, o.date, 0, 1)

PostDecrement == \E o \in predecrement(jd) : Stepped("x--", o, jd, 0, 1)

\* A free arithmetic operator applied to jd.
Applied(name, result, duration) ==
  /\ ~halted
  /\ ret' = result
  /\ op' = name
  /\ before' = jd
  /\ arg_day' = 0
  /\ arg_dur' = duration
  /\ arg_ymd' = NoYMD
  /\ cmp' = NoCmp
  /\ UNCHANGED <<jd, base, incs, decs, halted>>

Plus(duration) == Applied("date+d", operator_plus(jd, duration), duration)

PlusCommuted(duration) ==
  Applied("d+date", operator_plus_commuted(duration, jd), duration)

Minus(duration) == Applied("date-d", operator_minus(jd, duration), duration)

\* (date + d) - d: the subtraction of the same duration from the sum that
\* the last call returned.
MinusFromSum ==
  /\ ~halted
  /\ op \in {"date+d", "d+date"}
  /\ ret' = operator_minus(ret, arg_dur)
  /\ op' = "(date+d)-d"
  /\ cmp' = NoCmp
  /\ UNCHANGED <<jd, before, arg_day, arg_dur, arg_ymd, base, incs, decs,
                 halted>>

\* The six relational operators on a = jd and b = ret.
Compare ==
  /\ ~halted
  /\ op' = "compare"
  /\ before' = jd
  /\ cmp' = [eq |-> operator_eq(jd, ret), ne |-> operator_ne(jd, ret),
             lt |-> operator_lt(jd, ret), le |-> operator_le(jd, ret),
             gt |-> operator_gt(jd, ret), ge |-> operator_ge(jd, ret)]
  /\ arg_day' = 0
  /\ arg_dur' = zero
  /\ arg_ymd' = NoYMD
  /\ UNCHANGED <<jd, ret, base, incs, decs, halted>>

Next ==
  \/ DefaultConstruct
  \/ \E d \in DayArgs, time \in RawDurations : ConstructDayTime(d, time)
  \/ \E c \in CalendarDates, tod \in TodArgs : ConstructCalendar(c, tod)
  \/ PreIncrement
  \/ PostIncrement
  \/ PreDecrement
  \/ PostDecrement
  \/ \E duration \in AddDurations : Plus(duration)
  \/ \E duration \in AddDurations : PlusCommuted(duration)
  \/ \E duration \in AddDurations : Minus(duration)
  \/ MinusFromSum
  \/ Compare

Spec == Init /\ [][Next]_vars

\* The calendar conversion over its whole input grid: one construction from
\* each calendar date and time of day.
NextConv ==
  /\ op = "default"
  /\ \E y \in ConvYears, m \in ConvMonths, d \in ConvDays, tod \in ConvTods :
       ConstructCalendar(YMD(y, m, d), tod)

SpecConv == Init /\ [][NextConv]_vars

\* The stepping members at the ends of day_type.
NextLimits ==
  \/ PreIncrement
  \/ PostIncrement
  \/ PreDecrement
  \/ PostDecrement

SpecLimits == InitLimits /\ [][NextLimits]_vars

(***************************************************************************)
(* Properties.                                                             *)
(***************************************************************************)
\* floor(r / one day) and r - floor(r / one day) * one day of a duration.
floor_days(r) == r.sec \div SecPerDay
mod_day(r) == Dur(r.sec % SecPerDay, r.nsec)

InDay(t) == DurLeq(zero, t) /\ DurLess(t, ns_per_day)

\* C1: after every construction and every arithmetic operation the time of
\* day of the object and of the returned date is in [0, one day).
C1_TimeOfDayInRange == InDay(time_of_day(jd)) /\ InDay(time_of_day(ret))

LexEq(a, b) == day(a) = day(b) /\ time_of_day(a) = time_of_day(b)
LexLess(a, b) ==
  \/ day(a) < day(b)
  \/ day(a) = day(b) /\ DurLess(time_of_day(a), time_of_day(b))

\* C2: the six relational operators on a = jd and b = ret are those of the
\* lexicographic order on (day, time of day), and exactly one of a < b,
\* a == b, a > b holds.
C2_RelationalOperatorsLexicographic ==
  op = "compare" =>
    /\ cmp.eq <=> LexEq(jd, ret)
    /\ cmp.lt <=> LexLess(jd, ret)
    /\ cmp.ne <=> ~LexEq(jd, ret)
    /\ cmp.gt <=> LexLess(ret, jd)
    /\ cmp.le <=> (LexLess(jd, ret) \/ LexEq(jd, ret))
    /\ cmp.ge <=> (LexLess(ret, jd) \/ LexEq(jd, ret))
    /\ Cardinality({r \in {"lt", "eq", "gt"} : cmp[r]}) = 1

\* C3: date + d for d >= 0 has the day of date plus the whole days of
\* (time of day + d) and the remainder of that sum as its time of day.
C3_AdditionCarries ==
  (op \in {"date+d", "d+date"} /\ DurLeq(zero, arg_dur)) =>
    LET s == DurAdd(time_of_day(before), arg_dur)
    IN  /\ day(ret) = day(before) + floor_days(s)
        /\ time_of_day(ret) = mod_day(s)

\* C4: date - d has the day of date plus the floor of (time of day - d) in
\* days, and the non-negative remainder as its time of day.
C4_SubtractionBorrows ==
  op = "date-d" =>
    LET s == DurSub(time_of_day(before), arg_dur)
    IN  /\ day(ret) = day(before) + floor_days(s)
        /\ time_of_day(ret) = mod_day(s)

\* C5: julian_date{d, r} has day d + floor(r / one day) and time of day
\* r - floor(r / one day) * one day.
C5_ConstructionNormalizes ==
  op = "day_time" =>
    /\ day(jd) = arg_day + floor_days(arg_dur)
    /\ time_of_day(jd) = mod_day(arg_dur)

\* C6: after any sequence of ++ and -- the day is the constructed day plus
\* the increments minus the decrements and the time of day is the
\* constructed one; each step moves the day by exactly one; a post-form
\* returns the date held before it, a pre-form the date held after it.
C6_StepsChangeOnlyTheDay ==
  /\ day(jd) = day(base) + incs - decs
  /\ time_of_day(jd) = time_of_day(base)
  /\ op \in {"++x", "x++"} => day(jd) = day(before) + 1
  /\ op \in {"--x", "x--"} => day(jd) = day(before) - 1
  /\ op \in {"x++", "x--"} => ret = before
  /\ op \in {"++x", "--x"} => ret = jd

C6_Witness ==
  /\ op = "x++"
  /\ incs = 2
  /\ decs = 1
  /\ time_of_day(jd) = nanoseconds(56)
  /\ day(ret) = day(base)

\* C7: (date + d) - d has the day and the time of day of date and compares
\* equal to it.
C7_AdditiveInverse ==
  op = "(date+d)-d" =>
    /\ day(ret) = day(before)
    /\ time_of_day(ret) = time_of_day(before)
    /\ operator_eq(ret, before)

C7_Witness ==
  /\ op = "(date+d)-d"
  /\ arg_dur = seconds(2 * SecPerDay)
  /\ day(before) > 0
  /\ time_of_day(before) = nanoseconds(56)

\* C8: a ++ at the largest day or a -- at the smallest day surfaces an
\* overflow failure instead of yielding a date.
C8_OverflowReported ==
  (\/ op \in {"++x", "x++"} /\ day(before) = INT_MAX
   \/ op \in {"--x", "x--"} /\ day(before) = INT_MIN) => halted

OnOrBeforeChange(c) ==
  \/ c.year < 1582
  \/ c.year = 1582 /\ c.month < October
  \/ c.year = 1582 /\ c.month = October /\ c.day <= 15

QuarterDays(c) ==
  LET jf == c.month \in {January, February}
      ey == IF jf THEN c.year - 1 ELSE c.year
      em == IF jf THEN c.month + 12 ELSE c.month
      B  == IF OnOrBeforeChange(c) THEN 0
            ELSE 2 - (ey \div 100) + ((ey \div 100) \div 4)
  IN  4 * (B + ((1461 * ey) \div 4) + ((306001 * (em + 1)) \div 10000)
           + c.day)
      + (IF ey < 0 THEN -3 ELSE 0) + 6883978

StandardJulianDay(c, t) ==
  LET Q    == QuarterDays(c)
      secs == (Q % 4) * (SecPerDay \div 4) + t.sec
      fl   == (Q \div 4) + (secs \div SecPerDay)
      int  == secs % SecPerDay = 0 /\ t.nsec = 0
  IN  IF fl < 0 /\ ~int THEN fl + 1 ELSE fl

====
